---- MODULE Spec2Model ----
(***************************************************************************)
(* Model of cbpmodels.py: the column selection done by plot_variables and  *)
(* var_combinations, and the file naming and manifest writing done by      *)
(* save_plots, with delete_folder.                                         *)
(*                                                                         *)
(* Python sequences are 0-indexed, TLA+ sequences 1-indexed: column index  *)
(* i of the program is position i + 1 of `columns`.                        *)
(***************************************************************************)
EXTENDS Integers, Sequences, FiniteSets, TLC

(* ------------------------------ bounds -------------------------------- *)

\* Longest list or tuple passed as `xy`.
MaxLen == 4

\* Integer entries of `xy` range over -IdxBound .. IdxBound.
IdxBound == 7

\* Number of save_plots calls made in one run of the sequential model.
MaxSaves == 4

\* Number of save_plots calls each concurrent process makes.
MaxCalls == 2

(* ------------------------- the loaded table --------------------------- *)

\* data.columns after read_csv, dropna, drop('Source') and rename.
columns ==
    << "Species", "Cerebellum Surface Area", "Cerebrum Surface Area",
       "Cerebellum Volume", "Cerebrum Volume", "Taxon" >>

\* data[data.columns[i]].dtype for each column.
dtypes ==
    << "object", "float64", "float64", "float64", "float64", "object" >>

\* len(data.columns)
NumCols == Len(columns)

(* --------------------------- values of `xy` --------------------------- *)

\* An integer entry of `xy`.
IntElem(n) == [t |-> "int", v |-> n]

\* A non-integer entry of `xy`: the one-character string 'a'.
StrElem == [t |-> "str", v |-> 0]

\* xy=None, the default of plot_variables.
NoneArg == [kind |-> "none", items |-> << >>]

ListArg(s) == [kind |-> "list", items |-> s]

TupleArg(s) == [kind |-> "tuple", items |-> s]

\* A tuple of (x, y) column-name pairs, as plot_regression passes.
PairsArg(s) == [kind |-> "pairs", items |-> s]

Elems == {IntElem(n) : n \in -IdxBound .. IdxBound} \cup {StrElem}

SeqsUpTo(S, n) == UNION {[1 .. k -> S] : k \in 1 .. n}

\* any(isinstance(n, (int)) for n in xy)
AnyInt(a) ==
    /\ a.kind \in {"list", "tuple"}
    /\ \E i \in 1 .. Len(a.items) : a.items[i].t = "int"

\* The lists and tuples of at most n entries, one at least an integer, that a
\* caller may pass as column indices.
IndexArgs(n) ==
    {a \in {ListArg(s) : s \in SeqsUpTo(Elems, n)}
            \cup {TupleArg(s) : s \in SeqsUpTo(Elems, n)} : AnyInt(a)}

(* -------------------------- var_combinations -------------------------- *)

\* itertools.combinations(s, 2): pairs by position, in lexicographic order.
RECURSIVE Combinations2(_)
Combinations2(s) ==
    IF Len(s) < 2 THEN << >>
    ELSE [j \in 1 .. Len(s) - 1 |-> <<s[1], s[j + 1]>>] \o Combinations2(Tail(s))

\* data.columns[i] for one integer i: negative i counts from the end.
ColumnAt(i) == IF i < 0 THEN columns[NumCols + i + 1] ELSE columns[i + 1]

\* dtype of data[data.columns[i]].
DtypeAt(i) == IF i < 0 THEN dtypes[NumCols + i + 1] ELSE dtypes[i + 1]

\* data.columns[cols] succeeds only for a list of integers within range.
IndexableBy(cols, kind) ==
    /\ kind = "list"
    /\ \A i \in 1 .. Len(cols) :
          /\ cols[i].t = "int"
          /\ cols[i].v >= -NumCols
          /\ cols[i].v < NumCols

var_combinations(cols, kind) ==
    IF IndexableBy(cols, kind)
    THEN [exc |-> "none",
          val |-> Combinations2([i \in 1 .. Len(cols) |-> ColumnAt(cols[i].v)])]
    ELSE [exc |-> "IndexError", val |-> << >>]

\* var_combinations([4, 3, 1])
DefaultCombination ==
    var_combinations(<<IntElem(4), IntElem(3), IntElem(1)>>, "list")

(* --------------------------- plot_variables --------------------------- *)

\* list.remove(e): drops the first entry equal to e.
RECURSIVE ListRemove(_, _)
ListRemove(s, e) ==
    IF s = << >> THEN << >>
    ELSE IF Head(s) = e THEN Tail(s)
    ELSE <<Head(s)>> \o ListRemove(Tail(s), e)

\* The loop `for idx in xy: if ...: xy.remove(idx)`. The list iterator keeps a
\* position i into the list it is mutating and advances it after every entry,
\* removed or not. A tuple has no remove.
RECURSIVE FilterLoop(_, _, _)
FilterLoop(s, i, kind) ==
    IF i > Len(s) THEN [items |-> s, exc |-> "none"]
    ELSE LET idx == s[i]
             drop == IF kind = "tuple"
                     THEN [items |-> s, exc |-> "AttributeError"]
                     ELSE FilterLoop(ListRemove(s, idx), i + 1, kind)
         IN  IF idx.t # "int" THEN [items |-> s, exc |-> "TypeError"]
             ELSE IF idx.v >= NumCols THEN drop
             ELSE IF idx.v < -NumCols THEN [items |-> s, exc |-> "IndexError"]
             ELSE IF DtypeAt(idx.v) # "float64" THEN drop
             ELSE FilterLoop(s, i + 1, kind)

\* The except branch: the message is printed and the default is plotted.
Fallback(a, s) ==
    [obj |-> [kind |-> a.kind, items |-> s],
     val |-> DefaultCombination.val,
     usedDefault |-> TRUE,
     exc |-> DefaultCombination.exc]

\* Lines 105-122 of plot_variables: what `xy` is bound to afterwards (val),
\* what the caller's object holds (obj), whether the fallback message was
\* printed, and the exception that left the function, if any.
SelectXY(a) ==
    IF a.kind = "none"
    THEN [obj |-> a, val |-> DefaultCombination.val, usedDefault |-> FALSE,
          exc |-> DefaultCombination.exc]
    ELSE IF ~AnyInt(a)
    THEN [obj |-> a, val |-> a.items, usedDefault |-> FALSE, exc |-> "none"]
    ELSE LET f == FilterLoop(a.items, 1, a.kind)
         IN  IF f.exc \in {"TypeError", "IndexError"}
             THEN [obj |-> [kind |-> a.kind, items |-> f.items], val |-> << >>,
                   usedDefault |-> FALSE, exc |-> f.exc]
             ELSE IF f.exc = "AttributeError" \/ Len(f.items) < 2
             THEN Fallback(a, f.items)
             ELSE LET vc == var_combinations(f.items, a.kind)
                  IN  [obj |-> [kind |-> a.kind, items |-> f.items],
                       val |-> vc.val, usedDefault |-> FALSE, exc |-> vc.exc]

(* ----------------------------- save_plots ----------------------------- *)

\* `xy is var_combinations`: xy is a tuple of pairs and var_combinations is
\* the module's function object, so the identity test is never true.
XyIsVarCombinations(val) == FALSE

\* f'Default Simple Plots - #{png_id:d}.png' and its logged twin.
DefaultName(logged, id) ==
    (IF logged THEN "Default Log Plots - #" ELSE "Default Simple Plots - #")
        \o ToString(id) \o ".png"

\* f'{len(xy)} Simple Plot(s) - #{png_id:d}' and its logged twin.
CountStem(logged, n, id) ==
    ToString(n)
        \o (IF logged THEN " Log Plot(s) - #" ELSE " Simple Plot(s) - #")
        \o ToString(id)

CountName(logged, n, id) == CountStem(logged, n, id) \o ".png"

\* The file name save_plots tries with sequence number id.
PngName(logged, val, id) ==
    IF XyIsVarCombinations(val) THEN DefaultName(logged, id)
    ELSE CountName(logged, Len(val), id)

\* Faulty variant of ExistsPng: the logged branch tests the path under
\* 'Saved Simple Plots' (the branch is a copy of the simple one).
ExistsPngWrongFolder(fs, logged, name) == name \in fs[FALSE]

\* os.path.exists(f'Saved Simple Plots/{name}'), or under 'Saved Log Plots'
\* when logged. fs maps each category to the .png files of its folder.
ExistsPng(fs, logged, name) == name \in fs[logged]

\* png_id = 1; while os.path.exists(...): png_id += 1
RECURSIVE ScanPngId(_, _, _, _)
ScanPngId(fs, logged, val, id) ==
    IF ExistsPng(fs, logged, PngName(logged, val, id))
    THEN ScanPngId(fs, logged, val, id + 1)
    ELSE id

\* Faulty variant of NextPngId: one more than the number of files saved.
NextPngIdByCount(fs, logged, val) == Cardinality(fs[logged]) + 1

\* The png_id save_plots ends its scan with.
NextPngId(fs, logged, val) == ScanPngId(fs, logged, val, 1)

\* One entry written to SIMPLE_PLOT_DETAILS.txt / LOG_PLOT_DETAILS.txt: its
\* header and the pairs plotted. The last line of an entry is the wall-clock
\* time of the write, which nothing in the program reads back; it is left out.
ManifestEntry(logged, val, id) ==
    [header |-> CountStem(logged, Len(val), id), var_list |-> val]

\* Faulty variant of AppendText: the file is opened with 'w'.
WriteTextTruncating(text, entry) == <<entry>>

\* open(..., 'a') and write: the entry goes after what the file holds.
AppendText(text, entry) == Append(text, entry)

(* ------------------------------- state -------------------------------- *)

VARIABLES
    xy,           \* the object the caller passed as `xy`, as the call left it
    arg,          \* what that object held when the latest call began
    combos,       \* the pairs the latest call plotted (none when it raised)
    usedDefault,  \* the fallback message was printed by the latest call
    raised,       \* the exception that left the latest call, or "none"
    calls,        \* calls made so far with the object `xy`
    prev,         \* combos and raised of the call before the latest
    dirExists,    \* per category (logged): the save folder exists
    files,        \* per category: the .png files in the save folder
    manifest,     \* per category: the entries of the details file
    saved,        \* per category: file names savefig wrote since the folder was made
    last,         \* the latest save_plots call: its name and what it found
    nsaves,       \* save_plots calls made so far
    pc,           \* per process: where it is in save_plots
    png,          \* per process: its png_id
    lg,           \* per process: its `logged`
    ncalls,       \* per process: save_plots calls begun
    overwrote,    \* per process: its latest savefig replaced an existing file
    overlap       \* per process: its latest call ran while another call did

selVars == <<xy, arg, combos, usedDefault, raised, calls, prev>>

fsVars == <<dirExists, files, manifest, saved>>

procVars == <<pc, png, lg, ncalls, overwrote, overlap>>

vars == <<selVars, fsVars, last, nsaves, procVars>>

Procs == {1, 2}

NoSave ==
    [valid |-> FALSE, logged |-> FALSE, file |-> "", png_id |-> 0, before |-> {}]

\* Nothing has been called or saved yet; the caller holds the object a.
InitWith(a) ==
    /\ xy = a
    /\ arg = a
    /\ combos = << >>
    /\ usedDefault = FALSE
    /\ raised = "none"
    /\ calls = 0
    /\ prev = [val |-> << >>, exc |-> "none"]
    /\ dirExists = [c \in BOOLEAN |-> FALSE]
    /\ files = [c \in BOOLEAN |-> {}]
    /\ manifest = [c \in BOOLEAN |-> << >>]
    /\ saved = [c \in BOOLEAN |-> << >>]
    /\ last = NoSave
    /\ nsaves = 0
    /\ pc = [p \in Procs |-> "idle"]
    /\ png = [p \in Procs |-> 0]
    /\ lg = [p \in Procs |-> FALSE]
    /\ ncalls = [p \in Procs |-> 0]
    /\ overwrote = [p \in Procs |-> FALSE]
    /\ overlap = [p \in Procs |-> FALSE]

(* ------------------------ sequential operations ----------------------- *)

\* save_plots(figure, val, logged), run from start to end.
SavePlots(val, logged) ==
    LET id == NextPngId(files, logged, val)
        name == PngName(logged, val, id)
    IN  /\ dirExists' = [dirExists EXCEPT ![logged] = TRUE]
        /\ files' = [files EXCEPT ![logged] = @ \cup {name}]
        /\ saved' = [saved EXCEPT ![logged] = Append(@, name)]
        /\ manifest' = [manifest EXCEPT ![logged] =
                            AppendText(@, ManifestEntry(logged, val, id))]
        /\ last' = [valid |-> TRUE, logged |-> logged, file |-> name,
                    png_id |-> id, before |-> files[logged]]
        /\ nsaves' = nsaves + 1

\* Lines 131-209 of plot_variables, the layout and the plotting loop, for the
\* argument a and the outcome r of the selection: the exception that leaves
\* the function, if any. With no entry in xy neither category_size nor
\* right_margin is bound and fig_width raises UnboundLocalError; a list or
\* tuple without an integer is taken for pairs, and `for i, (x, y) in
\* enumerate(xy)` cannot unpack the string 'a'.
PlotXY(a, r) ==
    IF r.exc # "none" THEN r.exc
    ELSE IF Len(r.val) = 0 THEN "UnboundLocalError"
    ELSE IF a.kind \in {"list", "tuple"} /\ ~AnyInt(a) THEN "ValueError"
    ELSE "none"

\* plot_variables(xy=a, logged=logged, save=save)
PlotVariables(a, logged, save) ==
    LET r == SelectXY(a)
        exc == PlotXY(a, r)
    IN  /\ arg' = a
        /\ xy' = r.obj
        /\ combos' = IF exc = "none" THEN r.val ELSE << >>
        /\ usedDefault' = r.usedDefault
        /\ raised' = exc
        /\ IF save /\ exc = "none"
           THEN SavePlots(r.val, logged)
           ELSE UNCHANGED <<fsVars, last, nsaves>>
        /\ UNCHANGED procVars

\* The caller passes the list or tuple of indices it built (or nothing).
FirstCall ==
    /\ calls = 0
    /\ \E logged \in BOOLEAN : PlotVariables(xy, logged, FALSE)
    /\ calls' = 1
    /\ prev' = [val |-> combos, exc |-> raised]

\* A second call that passes the very object the first call was given, as the
\* first call left it.
CallAgain ==
    /\ calls = 1
    /\ \E logged \in BOOLEAN : PlotVariables(xy, logged, FALSE)
    /\ calls' = 2
    /\ prev' = [val |-> combos, exc |-> raised]

\* The arguments of the saving calls.
SaveArgs ==
    { NoneArg,
      ListArg(<<IntElem(3), IntElem(1)>>),
      ListArg(<<IntElem(0)>>),
      PairsArg(<< <<"Cerebrum Volume", "Cerebellum Volume">> >>) }

\* plot_variables(..., save=True)
SaveCall ==
    /\ nsaves < MaxSaves
    /\ \E a \in SaveArgs, logged \in BOOLEAN :
          PlotVariables(a, logged, TRUE)
    /\ calls' = 1
    /\ prev' = [val |-> combos, exc |-> raised]

\* delete_folder(logged): shutil.rmtree, or the message when there is no folder.
DeleteFolder ==
    \E logged \in BOOLEAN :
        /\ dirExists' = [dirExists EXCEPT ![logged] = FALSE]
        /\ files' = [files EXCEPT ![logged] = {}]
        /\ manifest' = [manifest EXCEPT ![logged] = << >>]
        /\ saved' = [saved EXCEPT ![logged] = << >>]
        /\ UNCHANGED <<selVars, last, nsaves, procVars>>

\* Someone outside the program deletes one saved figure.
ExternalRemove ==
    \E logged \in BOOLEAN :
        \E f \in files[logged] :
            /\ files' = [files EXCEPT ![logged] = @ \ {f}]
            /\ UNCHANGED <<dirExists, manifest, saved, selVars, last,
                           nsaves, procVars>>

\* The caller has built any list or tuple of indices, or passes nothing.
InitSelect == \E a \in IndexArgs(MaxLen) \cup {NoneArg} : InitWith(a)

NextSelect == FirstCall \/ CallAgain

SpecSelect == InitSelect /\ [][NextSelect]_vars

Init == InitWith(NoneArg)

Next == SaveCall \/ DeleteFolder \/ ExternalRemove

Spec == Init /\ [][Next]_vars

(* ------------------- save_plots, statement by statement --------------- *)

\* Two processes run plot_variables(save=True) in the same working directory.
\* Each saves the default combination; what is modelled is its save_plots call.

\* Process p is inside save_plots.
InCall(p) == pc[p] \in {"makedirs", "scan", "savefig", "write"}

\* `if not os.path.exists(save_folder)`, on entry to save_plots.
CheckFolder(p) ==
    \E logged \in BOOLEAN :
        /\ pc[p] = "idle"
        /\ ncalls[p] < MaxCalls
        /\ ncalls' = [ncalls EXCEPT ![p] = @ + 1]
        /\ lg' = [lg EXCEPT ![p] = logged]
        /\ overlap' = [q \in Procs |->
                          IF q = p THEN \E r \in Procs \ {p} : InCall(r)
                          ELSE overlap[q] \/ InCall(q)]
        /\ overwrote' = [overwrote EXCEPT ![p] = FALSE]
        /\ IF dirExists[logged]
           THEN /\ pc' = [pc EXCEPT ![p] = "scan"]
                /\ png' = [png EXCEPT ![p] = 1]
           ELSE /\ pc' = [pc EXCEPT ![p] = "makedirs"]
                /\ png' = png
        /\ UNCHANGED <<selVars, fsVars, last, nsaves>>

\* os.makedirs(save_folder), then png_id = 1. makedirs raises FileExistsError
\* when the folder has appeared since the test.
MakeDirs(p) ==
    /\ pc[p] = "makedirs"
    /\ IF dirExists[lg[p]]
       THEN /\ pc' = [pc EXCEPT ![p] = "failed"]
            /\ UNCHANGED <<dirExists, png>>
       ELSE /\ dirExists' = [dirExists EXCEPT ![lg[p]] = TRUE]
            /\ pc' = [pc EXCEPT ![p] = "scan"]
            /\ png' = [png EXCEPT ![p] = 1]
    /\ UNCHANGED <<selVars, files, manifest, saved, last, nsaves, lg, ncalls,
                   overwrote, overlap>>

\* One test of `while os.path.exists(...): png_id += 1`.
ScanStep(p) ==
    /\ pc[p] = "scan"
    /\ IF ExistsPng(files, lg[p], PngName(lg[p], DefaultCombination.val, png[p]))
       THEN /\ png' = [png EXCEPT ![p] = @ + 1]
            /\ pc' = pc
       ELSE /\ png' = png
            /\ pc' = [pc EXCEPT ![p] = "savefig"]
    /\ UNCHANGED <<selVars, fsVars, last, nsaves, lg, ncalls, overwrote, overlap>>

\* figure.savefig(...): creates the file, or replaces the one of that name.
SaveFig(p) ==
    LET name == PngName(lg[p], DefaultCombination.val, png[p])
    IN  /\ pc[p] = "savefig"
        /\ overwrote' = [overwrote EXCEPT ![p] = name \in files[lg[p]]]
        /\ files' = [files EXCEPT ![lg[p]] = @ \cup {name}]
        /\ saved' = [saved EXCEPT ![lg[p]] = Append(@, name)]
        /\ pc' = [pc EXCEPT ![p] = "write"]
        /\ UNCHANGED <<selVars, dirExists, manifest, last, nsaves, png, lg,
                       ncalls, overlap>>

\* The `with open(..., 'a')` block, then break and return.
WriteDetails(p) ==
    /\ pc[p] = "write"
    /\ manifest' = [manifest EXCEPT ![lg[p]] =
                        AppendText(@, ManifestEntry(lg[p], DefaultCombination.val, png[p]))]
    /\ pc' = [pc EXCEPT ![p] = "idle"]
    /\ UNCHANGED <<selVars, dirExists, files, saved, last, nsaves, png, lg,
                   ncalls, overwrote, overlap>>

NextConc ==
    \E p \in Procs :
        \/ CheckFolder(p)
        \/ MakeDirs(p)
        \/ ScanStep(p)
        \/ SaveFig(p)
        \/ WriteDetails(p)

SpecConc == Init /\ [][NextConc]_vars

(* ------------------------------ claims -------------------------------- *)

\* The column of that name holds floating-point numbers.
IsNumericName(nm) ==
    \E i \in 1 .. NumCols : columns[i] = nm /\ dtypes[i] = "float64"

\* An entry of a request that refers to a numeric column of the table.
ValidEntry(e) ==
    /\ e.t = "int"
    /\ e.v >= -NumCols
    /\ e.v < NumCols
    /\ DtypeAt(e.v) = "float64"

\* The request is a list of column indices, one at least: integers counted
\* from 0.
IntList(a) ==
    /\ a.kind = "list"
    /\ a.items # << >>
    /\ \A i \in 1 .. Len(a.items) : a.items[i].t = "int" /\ a.items[i].v >= 0

\* The valid entries of a request, in their original order.
ValidEntries(a) == SelectSeq(a.items, ValidEntry)

\* The column names of the valid entries of a request, in their original order.
ValidNames(a) ==
    [i \in 1 .. Len(ValidEntries(a)) |-> ColumnAt(ValidEntries(a)[i].v)]

SamePair(p, q) == {p[1], p[2]} = {q[1], q[2]}

\* C1: for every list of integer indices passed as xy, both members of every
\* pair plotted name a numeric (float64) column of the table.
C1_OnlyNumericPairs ==
    (calls >= 1 /\ IntList(arg) /\ raised = "none") =>
        \A i \in 1 .. Len(combos) :
            IsNumericName(combos[i][1]) /\ IsNumericName(combos[i][2])

\* C1, the stated input: [2, 0, 5] is plotted as (Cerebrum Surface Area, Taxon).
C1_FailingInput ==
    /\ calls = 1
    /\ arg = ListArg(<<IntElem(2), IntElem(0), IntElem(5)>>)
    /\ raised = "none"
    /\ ~usedDefault
    /\ combos = << <<"Cerebrum Surface Area", "Taxon">> >>

\* C3: a list of integer indices of which k >= 2 are valid yields exactly the
\* 2-combinations of the valid indices' columns, in their original relative
\* order, enumerated lexicographically by position.
C3_CombinationsOfValid ==
    (calls >= 1 /\ IntList(arg) /\ Len(ValidEntries(arg)) >= 2) =>
        /\ raised = "none"
        /\ combos = Combinations2(ValidNames(arg))

\* C3, the stated input: [0, 5, 1, 3] has the valid indices 1 and 3 and yields
\* the three pairs of [5, 1, 3].
C3_FailingInput ==
    /\ calls = 1
    /\ arg = ListArg(<<IntElem(0), IntElem(5), IntElem(1), IntElem(3)>>)
    /\ raised = "none"
    /\ combos = << <<"Taxon", "Cerebellum Surface Area">>,
                   <<"Taxon", "Cerebellum Volume">>,
                   <<"Cerebellum Surface Area", "Cerebellum Volume">> >>

\* C4: a list of integer indices with fewer than 2 valid ones is replaced by
\* the default combination [4, 3, 1] with the message printed, and the
\* fallback is taken only then.
C4_FallbackIffFewerThanTwo ==
    (calls >= 1 /\ IntList(arg)) =>
        /\ Len(ValidEntries(arg)) < 2 =>
              /\ raised = "none"
              /\ usedDefault
              /\ combos = DefaultCombination.val
        /\ usedDefault => Len(ValidEntries(arg)) < 2

\* C4, the stated input: [0, 5, 1] has one valid index and is plotted as
\* (Taxon, Cerebellum Surface Area), with no fallback.
C4_FailingInput ==
    /\ calls = 1
    /\ arg = ListArg(<<IntElem(0), IntElem(5), IntElem(1)>>)
    /\ raised = "none"
    /\ ~usedDefault
    /\ combos = << <<"Taxon", "Cerebellum Surface Area">> >>

\* C7: a call leaves the caller's list as it was, and a second call with the
\* same list object yields what the first did.
C7_NoSideEffect ==
    (calls >= 1 /\ arg.kind = "list") =>
        /\ xy = arg
        /\ calls = 2 => (combos = prev.val /\ raised = prev.exc)

\* C7, the stated input: [0, 5, 1, 3] is left as [5, 1, 3] by the first call,
\* which plots three pairs; the second call plots one.
C7_FailingInput ==
    /\ calls = 2
    /\ arg = ListArg(<<IntElem(5), IntElem(1), IntElem(3)>>)
    /\ xy = ListArg(<<IntElem(1), IntElem(3)>>)
    /\ Len(prev.val) = 3
    /\ combos = << <<"Cerebellum Surface Area", "Cerebellum Volume">> >>

\* C8: no exception leaves the selection, whatever xy holds beside one integer.
C8_NoExceptionEscapes == (calls >= 1 /\ AnyInt(arg)) => raised = "none"

\* C8, the stated input: [6, 7, 1, 3] keeps the out-of-range 7 and raises
\* IndexError in var_combinations.
C8_FailingInput ==
    /\ calls = 1
    /\ arg = ListArg(<<IntElem(6), IntElem(7), IntElem(1), IntElem(3)>>)
    /\ xy = ListArg(<<IntElem(7), IntElem(1), IntElem(3)>>)
    /\ raised = "IndexError"

\* C9: the two members of every pair plotted differ, and no unordered pair is
\* plotted twice.
C9_DistinctPairs ==
    (calls >= 1 /\ IntList(arg) /\ raised = "none") =>
        /\ \A i \in 1 .. Len(combos) : combos[i][1] # combos[i][2]
        /\ \A i, j \in 1 .. Len(combos) :
              i < j => ~SamePair(combos[i], combos[j])

\* C9, the stated input: [1, 1, 3] pairs column 1 with itself and plots
\* (column 1, column 3) twice.
C9_FailingInput ==
    /\ calls = 1
    /\ arg = ListArg(<<IntElem(1), IntElem(1), IntElem(3)>>)
    /\ combos = << <<"Cerebellum Surface Area", "Cerebellum Surface Area">>,
                   <<"Cerebellum Surface Area", "Cerebellum Volume">>,
                   <<"Cerebellum Surface Area", "Cerebellum Volume">> >>

\* The latest call plotted the default combination.
PlottedDefault == arg.kind = "none" \/ usedDefault

\* C2: the sequence number save_plots allocates is the smallest positive
\* integer whose file name, for the call's category and descriptor, was not in
\* the folder when the call began; the name allocated was not in the folder.
C2_SmallestUnusedId ==
    last.valid =>
        /\ last.png_id >= 1
        /\ last.file = PngName(last.logged, combos, last.png_id)
        /\ last.file \notin last.before
        /\ \A m \in 1 .. last.png_id - 1 :
              PngName(last.logged, combos, m) \in last.before

\* C2: with #1 and #3 of a descriptor in the folder and #2 deleted, a save of
\* that descriptor was given number 2.
C2_GapFilled ==
    /\ last.valid
    /\ last.png_id = 2
    /\ PngName(last.logged, combos, 1) \in last.before
    /\ PngName(last.logged, combos, 3) \in last.before

\* C5: a save of the default combination is named 'Default ... - #N.png', N
\* the smallest number unused among the default files; any other save is
\* named '{count} ... Plot(s) - #N.png'.
C5_DescriptorByDefault ==
    last.valid =>
        IF PlottedDefault
        THEN /\ last.file = DefaultName(last.logged, last.png_id)
             /\ last.file \notin last.before
             /\ \A m \in 1 .. last.png_id - 1 :
                   DefaultName(last.logged, m) \in last.before
        ELSE last.file = CountName(last.logged, Len(combos), last.png_id)

\* C5, the stated input: plot_variables(save=True) in an empty directory writes
\* '3 Simple Plot(s) - #1.png'.
C5_FailingInput ==
    /\ last.valid
    /\ arg = NoneArg
    /\ ~last.logged
    /\ last.before = {}
    /\ last.file = "3 Simple Plot(s) - #1.png"

\* C6: with no delete_folder in between, the manifest of a category holds one
\* entry for each save made into it, in the order the saves were made.
C6_ManifestAppendOnly ==
    \A c \in BOOLEAN :
        /\ Len(manifest[c]) = Len(saved[c])
        /\ \A i \in 1 .. Len(manifest[c]) :
              manifest[c][i].header \o ".png" = saved[c][i]

\* C6: three saves were made into one category, of two descriptors.
C6_ThreeSaves ==
    \E c \in BOOLEAN :
        /\ Len(manifest[c]) = 3
        /\ manifest[c][1].header # manifest[c][2].header
        /\ Len(manifest[c][2].var_list) # Len(manifest[c][3].var_list)

\* Two entries of one manifest carry the same header.
DuplicateEntry ==
    \E c \in BOOLEAN :
        \E i, j \in 1 .. Len(manifest[c]) :
            i < j /\ manifest[c][i].header = manifest[c][j].header

\* C10: a savefig replaces an existing file only in a save_plots call that ran
\* while another save_plots call was under way; calls made one after the other
\* never do.
C10_OverwriteOnlyWhenOverlapping ==
    \A p \in Procs : overwrote[p] => overlap[p]

\* C10: two overlapping calls took the same png_id; the second savefig
\* replaced the first file and the manifest holds the number twice.
C10_RaceReached ==
    /\ \A p \in Procs : pc[p] = "idle" /\ ncalls[p] = 1
    /\ lg[1] = lg[2]
    /\ png[1] = png[2]
    /\ \E p \in Procs : overwrote[p]
    /\ DuplicateEntry
    /\ Cardinality(files[lg[1]]) = 1

====
